---- MODULE Spec2Model ----
(***************************************************************************)
(* The configuration model of music_assistant_models/config_entries.py:    *)
(* ConfigEntry.parse_value (the coercion engine) and the Config aggregate  *)
(* (parse, to_raw, to_dict/__post_serialize__, get_value, update,          *)
(* validate) with the process-wide ENCRYPT_CALLBACK / DECRYPT_CALLBACK.    *)
(*                                                                         *)
(* A Python value is a record [fam, n, s]:                                 *)
(*   none            fam = "none"                                          *)
(*   bool            fam = "bool",  n \in {0, 1}                           *)
(*   int             fam = "int",   n the integer                          *)
(*   float           fam = "float", n the number in tenths (2.5 is 25)     *)
(*   str             fam = "str",   s the sequence of its characters       *)
(*   list            fam = "list",  s the sequence of its items            *)
(*   tuple[int,int]  fam = "pair",  s the two items                        *)
(*   Enum member     fam = "enum",  s the characters of its str .value     *)
(***************************************************************************)
EXTENDS Integers, Sequences, FiniteSets, TLC

\* Bounds of the model.
MaxEntries == 1   \* entries of a schema handed to Config.parse
MaxUpdate == 2    \* keys of one update bag

VARIABLES pc, cfgKind, enabled, name, values, ENCRYPT_CALLBACK, DECRYPT_CALLBACK, ret

vars == <<pc, cfgKind, enabled, name, values, ENCRYPT_CALLBACK, DECRYPT_CALLBACK, ret>>

-----------------------------------------------------------------------------
\* Python values

None == [fam |-> "none", n |-> 0, s |-> <<>>]
PyBool(b) == [fam |-> "bool", n |-> IF b THEN 1 ELSE 0, s |-> <<>>]
PyInt(i) == [fam |-> "int", n |-> i, s |-> <<>>]
PyFloat(tenths) == [fam |-> "float", n |-> tenths, s |-> <<>>]
PyStr(chars) == [fam |-> "str", n |-> 0, s |-> chars]
PyList(items) == [fam |-> "list", n |-> 0, s |-> items]
PyPair(items) == [fam |-> "pair", n |-> 0, s |-> items]
PyEnum(chars) == [fam |-> "enum", n |-> 0, s |-> chars]

IsNone(v) == v.fam = "none"

\* The number a bool, int or float stands for, in tenths.
Tenths(v) == IF v.fam = "float" THEN v.n ELSE 10 * v.n

IsNumber(v) == v.fam \in {"bool", "int", "float"}

\* Python's == on two values: numbers compare by value across bool, int and
\* float (True == 1 == 1.0); everything else compares within its own type.
PyEq(a, b) ==
    IF IsNumber(a) /\ IsNumber(b) THEN Tenths(a) = Tenths(b)
    ELSE a.fam = b.fam /\ a.s = b.s

\* Python's truth value of a value (bool(v)).
PyTruthy(v) ==
    CASE v.fam = "none" -> FALSE
      [] IsNumber(v) -> v.n # 0
      [] v.fam \in {"str", "list", "pair"} -> v.s # <<>>
      [] OTHER -> TRUE

\* isinstance(v, t) for the classes NoneType, bool, int, float, str and list
\* (bool is a subclass of int).
IsInstance(v, t) ==
    CASE t = "none" -> v.fam = "none"
      [] t = "bool" -> v.fam = "bool"
      [] t = "int" -> v.fam \in {"int", "bool"}
      [] t = "float" -> v.fam = "float"
      [] t = "str" -> v.fam = "str"
      [] t = "list" -> v.fam = "list"
      [] OTHER -> FALSE

\* float(v) of an int (or bool).
ToFloat(v) == PyFloat(10 * v.n)

\* Rounding toward minus infinity instead.
ToInt_Floor(v) == PyInt(v.n \div 10)

\* int(v) of a float: truncation toward zero.
ToInt(v) == PyInt(IF v.n >= 0 THEN v.n \div 10 ELSE 0 - ((0 - v.n) \div 10))

-----------------------------------------------------------------------------
\* int(str) and float(str) on strings of digits, sign and decimal point

Digits == {"0", "1", "2", "3", "4", "5", "6", "7", "8", "9"}

DigitVal(c) ==
    CASE c = "0" -> 0 [] c = "1" -> 1 [] c = "2" -> 2 [] c = "3" -> 3 [] c = "4" -> 4
      [] c = "5" -> 5 [] c = "6" -> 6 [] c = "7" -> 7 [] c = "8" -> 8 [] c = "9" -> 9

AllDigits(cs) == \A i \in 1..Len(cs) : cs[i] \in Digits

RECURSIVE DigitsVal(_)
DigitsVal(cs) ==
    IF cs = <<>> THEN 0
    ELSE 10 * DigitsVal(SubSeq(cs, 1, Len(cs) - 1)) + DigitVal(cs[Len(cs)])

HasSign(cs) == cs # <<>> /\ cs[1] \in {"-", "+"}
Unsigned(cs) == IF HasSign(cs) THEN Tail(cs) ELSE cs
Sign(cs) == IF cs # <<>> /\ cs[1] = "-" THEN 0 - 1 ELSE 1

\* int(cs) raises no ValueError
IsIntLiteral_Never(cs) == FALSE
IsIntLiteral(cs) == Unsigned(cs) # <<>> /\ AllDigits(Unsigned(cs))
ParseInt(cs) == PyInt(Sign(cs) * DigitsVal(Unsigned(cs)))

\* Position of the decimal point in cs, 0 when there is none.
DotAt(cs) == IF \E i \in 1..Len(cs) : cs[i] = "."
             THEN CHOOSE i \in 1..Len(cs) : cs[i] = "." /\ \A j \in 1..(i - 1) : cs[j] # "."
             ELSE 0
IntPart(cs) == IF DotAt(cs) = 0 THEN cs ELSE SubSeq(cs, 1, DotAt(cs) - 1)
FracPart(cs) == IF DotAt(cs) = 0 THEN <<>> ELSE SubSeq(cs, DotAt(cs) + 1, Len(cs))

\* A float(cs) that accepts no decimal point.
IsFloatLiteral_NoPoint(cs) == Unsigned(cs) # <<>> /\ AllDigits(Unsigned(cs))

\* float(cs) raises no ValueError (strings with at most one fractional digit)
IsFloatLiteral(cs) ==
    LET u == Unsigned(cs)
    IN /\ AllDigits(IntPart(u)) /\ AllDigits(FracPart(u))
       /\ Len(IntPart(u)) + Len(FracPart(u)) > 0
       /\ Len(FracPart(u)) <= 1
ParseFloat(cs) ==
    LET u == Unsigned(cs)
    IN PyFloat(Sign(cs) * (10 * DigitsVal(IntPart(u)) + DigitsVal(FracPart(u))))

-----------------------------------------------------------------------------
\* ConfigEntryType and the coercion engine

ConfigEntryType ==
    {"boolean", "string", "secure_string", "integer", "float", "label",
     "integer_tuple", "divider", "action", "icon", "alert", "unknown"}

\* The class expected for a single-valued entry of each type; "pair" is the
\* parameterized generic tuple[int, int], "none" is NoneType (the .get default).
ConfigEntryTypeMap(t) ==
    CASE t = "boolean" -> "bool"
      [] t \in {"string", "secure_string", "label", "divider", "action", "alert", "icon"} -> "str"
      [] t = "integer" -> "int"
      [] t = "integer_tuple" -> "pair"
      [] t = "float" -> "float"
      [] OTHER -> "none"

UI_ONLY_NoAlert == {"label", "divider", "action"}
UI_ONLY_NoDivider == {"label", "action", "alert"}
UI_ONLY == {"label", "divider", "action", "alert"}

\* The outcome of one call: the entry afterwards, whether it raised, and the
\* returned value (None when it raised).
Returned(e, v) == [ok |-> TRUE, err |-> "", entry |-> [e EXCEPT !.value = v], out |-> v]
Raised(e, kind) == [ok |-> FALSE, err |-> kind, entry |-> e, out |-> None]

\* FallbackToDefault that stores the default instead of raising.
FallbackToDefault_Stores(e, value, allow_none) == Returned(e, e.default_value)

\* The tail of parse_value for a value that is no instance of the expected
\* class and that no numeric conversion rescued.
FallbackToDefault(e, value, allow_none) ==
    LET v == IF ~IsNone(e.default_value) THEN e.default_value ELSE value
    IN IF ~(IsNone(v) /\ allow_none) THEN Raised(e, "ValueError") ELSE Returned(e, v)

\* The class parse_value starts from: list for a multi-value entry, else the
\* class mapped from the type.
DeclaredType(e) == IF e.multi_value THEN "list" ELSE ConfigEntryTypeMap(e.type)

\* A raw value that is absent (None) is replaced by the entry's default.
SubstituteDefault_Skipped(e, raw) == raw
SubstituteDefault(e, raw) == IF IsNone(raw) THEN e.default_value ELSE raw

\* The expected class is relaxed to NoneType for a value that is still None
\* when the entry is not required or None is allowed.
ExpectedType_AlwaysRelaxed(e, v, allow_none) ==
    IF IsNone(v) THEN "none" ELSE DeclaredType(e)
ExpectedType(e, v, allow_none) ==
    IF IsNone(v) /\ (~e.required \/ allow_none) THEN "none" ELSE DeclaredType(e)

\* A label entry takes its label as the value.
ForceLabel(e, v) == IF e.type = "label" THEN PyStr(e.label) ELSE v

\* The numeric conversions of a value that is no instance of the expected class.
CanConvert(value, expected) ==
    \/ expected = "float" /\ IsInstance(value, "int")
    \/ expected = "int" /\ IsInstance(value, "float")
    \/ expected = "int" /\ IsInstance(value, "str") /\ IsIntLiteral(value.s)
    \/ expected = "float" /\ IsInstance(value, "str") /\ IsFloatLiteral(value.s)
Convert(value, expected) ==
    IF expected = "float" /\ IsInstance(value, "int") THEN ToFloat(value)
    ELSE IF expected = "int" /\ IsInstance(value, "float") THEN ToInt(value)
    ELSE IF expected = "int" THEN ParseInt(value.s)
    ELSE ParseFloat(value.s)

\* ConfigEntry.parse_value(value, allow_none). isinstance against the
\* parameterized generic tuple[int, int] raises TypeError.
ParseValue(e, raw, allow_none) ==
    LET v1 == SubstituteDefault(e, raw)
        expected == ExpectedType(e, v1, allow_none)
        value == ForceLabel(e, v1)
    IN  IF expected = "pair" THEN Raised(e, "TypeError")
        ELSE IF IsInstance(value, expected) THEN Returned(e, value)
        ELSE IF CanConvert(value, expected) THEN Returned(e, Convert(value, expected))
        ELSE IF e.type \in UI_ONLY THEN Returned(e, e.default_value)
        ELSE FallbackToDefault(e, value, allow_none)

-----------------------------------------------------------------------------
\* The values the model draws inputs from

Label == <<"L">>

StrValues ==
    {PyStr(<<>>), PyStr(<<"x">>), PyStr(<<"7", "5">>), PyStr(<<"4", "2", ".", "0">>),
     PyStr(<<"$", "x">>)}

\* Raw values as read from storage or handed to update.
RawValues ==
    {None, PyBool(TRUE), PyInt(3), PyInt(75), PyFloat(0 - 25), PyFloat(30), PyList(<<"a">>)}
        \cup StrValues

\* Defaults a schema author may declare.
DefaultValues ==
    {None, PyBool(TRUE), PyInt(3), PyFloat(25), PyStr(<<"x">>), PyStr(<<"s">>),
     PyList(<<>>), PyPair(<<"1", "2">>), PyEnum(<<"x">>)}

NewEntry(k, t, d, r, m) ==
    [key |-> k, type |-> t, label |-> Label, default_value |-> d, required |-> r,
     multi_value |-> m, value |-> None]

EntryDefs(k) ==
    {NewEntry(k, t, d, r, m) :
        t \in ConfigEntryType, d \in DefaultValues, r \in BOOLEAN, m \in BOOLEAN}

KeyNames == <<"k1", "k2", "k3", "k4">>

-----------------------------------------------------------------------------
\* The secrecy strategy: the callables a consumer installs in ENCRYPT_CALLBACK
\* and DECRYPT_CALLBACK. "mark" prefixes a string with "$" unless it already
\* starts with it; "wrap" always prefixes; both decrypt functions strip one "$".

StartsWithMark(chars) == chars # <<>> /\ chars[1] = "$"

ApplyEncrypt(fn, chars) ==
    IF fn = "mark" /\ StartsWithMark(chars) THEN chars ELSE <<"$">> \o chars

ApplyDecrypt(fn, chars) == IF StartsWithMark(chars) THEN Tail(chars) ELSE chars

SecrecyStrategies ==
    {[enc |-> "None", dec |-> "None"], [enc |-> "mark", dec |-> "unmark"],
     [enc |-> "wrap", dec |-> "unwrap"]}

\* The placeholder that stands for a secret in the serialized form.
SECURE_STRING_SUBSTITUTE == PyStr(<<"*", "*">>)

-----------------------------------------------------------------------------
\* The Config aggregate. A Config is [kind, enabled, name, values]: values is
\* the dict of entries in insertion order; a CoreConfig has no enabled and no
\* name attribute (Absent).

Absent == [fam |-> "absent", n |-> 0, s |-> <<>>]

ConfigKinds == {"provider", "player", "core"}

HasRootFields(kind) == kind \in {"provider", "player"}

Cfg == [kind |-> cfgKind, enabled |-> enabled, name |-> name, values |-> values]

KeysOf(entries) == {entries[i].key : i \in 1..Len(entries)}
IndexOf(entries, k) == CHOOSE i \in 1..Len(entries) : entries[i].key = k

\* raw.get("values", {}).get(key)
RawGet(raw, k) == IF k \in DOMAIN raw.values THEN raw.values[k] ELSE None

\* An Enum member given as default_value is replaced by its .value; the
\* entry is then copied through to_dict/from_dict.
PrepareEntry(e) ==
    [e EXCEPT !.default_value = IF @.fam = "enum" THEN PyStr(@.s) ELSE @]

\* The loop of Config.parse over the schema: done are the entries stored so far.
RECURSIVE ParseEntries(_, _, _)
ParseEntries(schema, raw, done) ==
    IF schema = <<>> THEN [ok |-> TRUE, err |-> "", values |-> done]
    ELSE LET r == ParseValue(PrepareEntry(Head(schema)), RawGet(raw, Head(schema).key), TRUE)
         IN IF ~r.ok THEN [ok |-> FALSE, err |-> r.err, values |-> <<>>]
            ELSE ParseEntries(Tail(schema), raw, Append(done, r.entry))

\* Config.parse that also stores an entry for a raw key no schema entry has.
ParseConfig_KeepsRawKeys(kind, schema, raw) ==
    LET r == ParseEntries(schema, raw, <<>>)
        extra == DOMAIN raw.values \ KeysOf(schema)
    IN [ok |-> r.ok, err |-> r.err,
        cfg |-> [kind |-> kind,
                 enabled |-> IF HasRootFields(kind) THEN raw.enabled ELSE Absent,
                 name |-> IF HasRootFields(kind) THEN raw.name ELSE Absent,
                 values |-> IF r.ok /\ extra # {}
                            THEN Append(r.values,
                                        NewEntry(CHOOSE k \in extra : TRUE, "string",
                                                 None, FALSE, FALSE))
                            ELSE r.values]]

\* Config.parse(config_entries, raw) on the class of the given kind.
ParseConfig(kind, schema, raw) ==
    LET r == ParseEntries(schema, raw, <<>>)
    IN [ok |-> r.ok, err |-> r.err,
        cfg |-> [kind |-> kind,
                 enabled |-> IF HasRootFields(kind) THEN raw.enabled ELSE Absent,
                 name |-> IF HasRootFields(kind) THEN raw.name ELSE Absent,
                 values |-> r.values]]

\* Config.to_raw: _handle_value and the filter of the dict comprehension.
Emitted_Inverted(e) == PyEq(e.value, e.default_value) /\ e.type \notin UI_ONLY
Emitted(e) == ~PyEq(e.value, e.default_value) /\ e.type \notin UI_ONLY

HandleValueFails(e, enc) ==
    e.type = "secure_string" /\ (~IsInstance(e.value, "str") \/ enc = "None")

HandleValue_Plain(e, enc) == e.value
HandleValue(e, enc) ==
    IF e.type = "secure_string" THEN PyStr(ApplyEncrypt(enc, e.value.s)) ELSE e.value

ToRaw(c, enc) ==
    LET emitted == {i \in 1..Len(c.values) : Emitted(c.values[i])}
    IN IF \E i \in emitted : HandleValueFails(c.values[i], enc)
       THEN [ok |-> FALSE, err |-> "AssertionError", enabled |-> Absent, name |-> Absent,
             values |-> <<>>]
       ELSE [ok |-> TRUE, err |-> "", enabled |-> c.enabled, name |-> c.name,
             values |-> [k \in {c.values[i].key : i \in emitted} |->
                            HandleValue(c.values[IndexOf(c.values, k)], enc)]]

\* Config.to_dict with __post_serialize__: every entry in full, the value of
\* a secure_string entry with a truthy value replaced by the placeholder.
Redacts(e) == PyTruthy(e.value) /\ e.type = "secure_string"

ToDict(c) ==
    [enabled |-> c.enabled, name |-> c.name,
     values |-> [k \in KeysOf(c.values) |->
        LET e == c.values[IndexOf(c.values, k)]
        IN IF Redacts(e) THEN [e EXCEPT !.value = SECURE_STRING_SUBSTITUTE] ELSE e]]

\* Config.get_value(key)
GetValue(c, k, dec) ==
    IF k \notin KeysOf(c.values) THEN [ok |-> FALSE, err |-> "KeyError", out |-> None]
    ELSE LET e == c.values[IndexOf(c.values, k)]
         IN IF e.type = "secure_string" /\ PyTruthy(e.value)
            THEN IF ~IsInstance(e.value, "str") \/ dec = "None"
                 THEN [ok |-> FALSE, err |-> "AssertionError", out |-> None]
                 ELSE [ok |-> TRUE, err |-> "", out |-> PyStr(ApplyDecrypt(dec, e.value.s))]
            ELSE [ok |-> TRUE, err |-> "", out |-> e.value]

\* Config.update: an update bag is a sequence of [key, val] with distinct keys.
BagHas(bag, k) == \E i \in 1..Len(bag) : bag[i].key = k
BagGet(bag, k) == bag[CHOOSE i \in 1..Len(bag) : bag[i].key = k].val

ROOT_VALUES == <<"enabled", "name">>

ValuesId(k) == "values/" \o k

\* UpdateRoot that sets the field without recording its name.
UpdateRoot_Unreported(u, bag, key) ==
    IF ~u.ok \/ ~BagHas(bag, key) THEN u
    ELSE IF ~HasRootFields(u.cfg.kind) THEN [u EXCEPT !.ok = FALSE, !.err = "AttributeError"]
    ELSE [u EXCEPT !.cfg[key] = BagGet(bag, key)]

\* One turn of the loop over the root values; u is [ok, err, cfg, changed].
UpdateRoot(u, bag, key) ==
    IF ~u.ok \/ ~BagHas(bag, key) THEN u
    ELSE IF ~HasRootFields(u.cfg.kind) THEN [u EXCEPT !.ok = FALSE, !.err = "AttributeError"]
    ELSE IF PyEq(BagGet(bag, key), u.cfg[key]) THEN u
    ELSE [u EXCEPT !.cfg[key] = BagGet(bag, key), !.changed = @ \cup {key}]

\* The outcome u after parse_value returned or raised r for entry i, whose
\* value was cur_val before the call.
AfterParse(u, key, i, cur_val, r) ==
    IF ~r.ok THEN [u EXCEPT !.ok = FALSE, !.err = r.err]
    ELSE [u EXCEPT !.cfg.values[i] = r.entry,
                   !.changed = IF PyEq(cur_val, r.out) THEN @ ELSE @ \cup {ValuesId(key)}]

\* The loop over the items of the bag.
RECURSIVE UpdateEntries(_, _)
UpdateEntries(u, bag) ==
    IF bag = <<>> \/ ~u.ok THEN u
    ELSE LET key == Head(bag).key
         IN IF key \in {"enabled", "name"} \/ key \notin KeysOf(u.cfg.values)
            THEN UpdateEntries(u, Tail(bag))
            ELSE LET i == IndexOf(u.cfg.values, key)
                 IN UpdateEntries(
                        AfterParse(u, key, i, u.cfg.values[i].value,
                                   ParseValue(u.cfg.values[i], Head(bag).val, TRUE)),
                        Tail(bag))

\* update that raises KeyError for a key that names no entry.
UpdateConfig_RejectUnknown(c, bag) ==
    IF \E i \in 1..Len(bag) :
            bag[i].key \notin {"enabled", "name"} \cup KeysOf(c.values)
    THEN [ok |-> FALSE, err |-> "KeyError", cfg |-> c, changed |-> {}]
    ELSE UpdateEntries(
            UpdateRoot(UpdateRoot([ok |-> TRUE, err |-> "", cfg |-> c, changed |-> {}],
                                  bag, ROOT_VALUES[1]), bag, ROOT_VALUES[2]),
            bag)

UpdateConfig(c, bag) ==
    UpdateEntries(
        UpdateRoot(UpdateRoot([ok |-> TRUE, err |-> "", cfg |-> c, changed |-> {}],
                              bag, ROOT_VALUES[1]), bag, ROOT_VALUES[2]),
        bag)

\* Config.validate: parse_value(value.value, allow_none=False) on every entry,
\* from entry i on.
RECURSIVE ValidateFrom(_, _)
ValidateFrom(c, i) ==
    IF i > Len(c.values) THEN [ok |-> TRUE, err |-> "", cfg |-> c]
    ELSE LET r == ParseValue(c.values[i], c.values[i].value, FALSE)
         IN IF ~r.ok THEN [ok |-> FALSE, err |-> r.err, cfg |-> c]
            ELSE ValidateFrom([c EXCEPT !.values[i] = r.entry], i + 1)

\* A validate that accepts every Config.
ValidateConfig_Lenient(c) == [ok |-> TRUE, err |-> "", cfg |-> c]

ValidateConfig(c) == ValidateFrom(c, 1)

-----------------------------------------------------------------------------
\* Inputs of the Config operations

\* Entry definitions of the schemas handed to Config.parse.
SchemaDefs(k) ==
    {NewEntry(k, "integer", PyInt(3), TRUE, FALSE),
     NewEntry(k, "float", PyInt(3), TRUE, FALSE),
     NewEntry(k, "boolean", PyBool(TRUE), TRUE, FALSE),
     NewEntry(k, "boolean", PyInt(1), FALSE, FALSE),
     NewEntry(k, "string", None, TRUE, FALSE),
     NewEntry(k, "string", PyEnum(<<"x">>), FALSE, FALSE),
     NewEntry(k, "string", PyList(<<>>), FALSE, TRUE),
     NewEntry(k, "icon", None, FALSE, FALSE),
     NewEntry(k, "secure_string", None, FALSE, FALSE),
     NewEntry(k, "secure_string", PyStr(<<"$", "x">>), TRUE, FALSE),
     NewEntry(k, "secure_string", None, FALSE, TRUE),
     NewEntry(k, "integer_tuple", None, FALSE, FALSE),
     NewEntry(k, "unknown", None, TRUE, FALSE),
     NewEntry(k, "label", None, TRUE, FALSE),
     NewEntry(k, "divider", PyInt(3), TRUE, FALSE),
     NewEntry(k, "action", None, FALSE, FALSE),
     NewEntry(k, "alert", PyStr(<<"s">>), TRUE, FALSE)}

RECURSIVE SchemasOfLen(_)
SchemasOfLen(n) ==
    IF n = 0 THEN {<<>>}
    ELSE {Append(s, e) : s \in SchemasOfLen(n - 1), e \in SchemaDefs(KeyNames[n])}

Schemas == UNION {SchemasOfLen(n) : n \in 0..MaxEntries}

StrayKey == "zz"

\* Raw bags: root fields, a raw value (None when absent) per schema key, and
\* one key that no schema has.
RawBags(schema) ==
    {[enabled |-> en, name |-> nm, values |-> vs] :
        en \in {PyBool(TRUE), PyBool(FALSE)},
        nm \in {None, PyStr(<<"n">>)},
        vs \in {f \in [KeysOf(schema) \cup {StrayKey} -> RawValues] :
                    f[StrayKey] = PyStr(<<"x">>)}}

\* The values an update bag may hold for the key of an entry.
UpdateValues ==
    {None, PyBool(TRUE), PyInt(75), PyFloat(0 - 25), PyStr(<<"x">>), PyStr(<<"7", "5">>),
     PyList(<<"a">>)}

\* The items an update bag may hold for a Config with the given entries.
UpdateItems(entries) ==
    {[key |-> "enabled", val |-> PyBool(b)] : b \in BOOLEAN}
    \cup {[key |-> "name", val |-> v] : v \in {None, PyStr(<<"n">>)}}
    \cup {[key |-> k, val |-> v] : k \in KeysOf(entries), v \in UpdateValues}
    \cup {[key |-> ValuesId(k), val |-> v] :
            k \in KeysOf(entries), v \in {PyStr(<<"7", "5">>)}}
    \cup {[key |-> StrayKey, val |-> PyStr(<<"x">>)]}

RECURSIVE BagsOfLen(_, _)
BagsOfLen(entries, n) ==
    IF n = 0 THEN {<<>>}
    ELSE {Append(b, it) : b \in BagsOfLen(entries, n - 1),
                          it \in {x \in UpdateItems(entries) : TRUE}}

DistinctKeys(bag) == \A i, j \in 1..Len(bag) : bag[i].key = bag[j].key => i = j

UpdateBags(entries) ==
    {b \in UNION {BagsOfLen(entries, n) : n \in 0..MaxUpdate} : DistinctKeys(b)}

-----------------------------------------------------------------------------
\* Spec: the life of one Config

\* ret before any call
NoRet == [op |-> "none", ok |-> TRUE, err |-> "", arg |-> <<>>, out |-> <<>>]

Init ==
    /\ pc = "new"
    /\ cfgKind = "none"
    /\ enabled = Absent
    /\ name = Absent
    /\ values = <<>>
    /\ \E st \in SecrecyStrategies :
        ENCRYPT_CALLBACK = st.enc /\ DECRYPT_CALLBACK = st.dec
    /\ ret = NoRet

Result(op, ok, err, out) == [op |-> op, ok |-> ok, err |-> err, arg |-> <<>>, out |-> out]

\* Config.parse on one of the three classes
Parse ==
    /\ pc = "new"
    /\ \E kind \in ConfigKinds, schema \in Schemas :
        \E raw \in RawBags(schema) :
            \E r \in {ParseConfig(kind, schema, raw)} :
               /\ pc' = IF r.ok THEN "ready" ELSE "failed"
               /\ cfgKind' = kind
               /\ enabled' = IF r.ok THEN r.cfg.enabled ELSE Absent
               /\ name' = IF r.ok THEN r.cfg.name ELSE Absent
               /\ values' = r.cfg.values
               /\ ret' = [Result("parse", r.ok, r.err, <<>>) EXCEPT
                            !.arg = {k \in KeysOf(schema) : ~IsNone(raw.values[k])}]
    /\ UNCHANGED <<ENCRYPT_CALLBACK, DECRYPT_CALLBACK>>

Update ==
    /\ pc = "ready"
    /\ \E bag \in UpdateBags(values) :
        \E u \in {UpdateConfig(Cfg, bag)} :
           /\ enabled' = u.cfg.enabled
           /\ name' = u.cfg.name
           /\ values' = u.cfg.values
           /\ ret' = Result("update", u.ok, u.err, IF u.ok THEN u.changed ELSE {})
    /\ UNCHANGED <<pc, cfgKind, ENCRYPT_CALLBACK, DECRYPT_CALLBACK>>

Validate ==
    /\ pc = "ready"
    /\ \E r \in {ValidateConfig(Cfg)} :
          /\ values' = r.cfg.values
          /\ ret' = Result("validate", r.ok, r.err, <<>>)
    /\ UNCHANGED <<pc, cfgKind, enabled, name, ENCRYPT_CALLBACK, DECRYPT_CALLBACK>>

CallToRaw ==
    /\ pc = "ready"
    /\ \E r \in {ToRaw(Cfg, ENCRYPT_CALLBACK)} :
          ret' = Result("to_raw", r.ok, r.err, r)
    /\ UNCHANGED <<pc, cfgKind, enabled, name, values, ENCRYPT_CALLBACK, DECRYPT_CALLBACK>>

CallToDict ==
    /\ pc = "ready"
    /\ ret' = Result("to_dict", TRUE, "", ToDict(Cfg))
    /\ UNCHANGED <<pc, cfgKind, enabled, name, values, ENCRYPT_CALLBACK, DECRYPT_CALLBACK>>

CallGetValue ==
    /\ pc = "ready"
    /\ \E k \in KeysOf(values) :
        \E r \in {GetValue(Cfg, k, DECRYPT_CALLBACK)} :
           ret' = [Result("get_value", r.ok, r.err, r.out) EXCEPT !.arg = k]
    /\ UNCHANGED <<pc, cfgKind, enabled, name, values, ENCRYPT_CALLBACK, DECRYPT_CALLBACK>>

Next == Parse \/ Update \/ Validate \/ CallToRaw \/ CallToDict \/ CallGetValue

Spec == Init /\ [][Next]_vars

-----------------------------------------------------------------------------
\* SpecParse: parse_value called directly on one entry

InitParse ==
    /\ pc = "entry"
    /\ cfgKind = "none"
    /\ enabled = None
    /\ name = None
    /\ ENCRYPT_CALLBACK = "None"
    /\ DECRYPT_CALLBACK = "None"
    /\ \E e \in EntryDefs(KeyNames[1]) : values = <<e>>
    /\ ret = NoRet

CallParseValue ==
    /\ pc = "entry"
    /\ \E raw \in RawValues, allow_none \in BOOLEAN :
        \E r \in {ParseValue(values[1], raw, allow_none)} :
           /\ values' = <<r.entry>>
           /\ ret' = [op |-> "parse_value", ok |-> r.ok, err |-> r.err,
                      arg |-> [raw |-> raw, allow_none |-> allow_none], out |-> r.out]
    /\ UNCHANGED <<pc, cfgKind, enabled, name, ENCRYPT_CALLBACK, DECRYPT_CALLBACK>>

NextParse == CallParseValue

SpecParse == InitParse /\ [][NextParse]_vars

-----------------------------------------------------------------------------
\* Claims about parse_value, checked under SpecParse

Called == ret.op = "parse_value"
TheEntry == values[1]

\* C1 (as claimed): a call of parse_value on an entry of type label returns
\* the entry's label and stores it as the value, whatever the raw value, the
\* default, required, allow_none and multi_value.
C1_LabelAlwaysYieldsLabel ==
    (Called /\ TheEntry.type = "label")
        => (ret.ok /\ ret.out = PyStr(TheEntry.label) /\ TheEntry.value = PyStr(TheEntry.label))

\* C2 (as claimed): parse_value(None) on an entry with a non-None default (not
\* an Enum member, which Config.parse unwraps first) returns that default and
\* stores it as the value, for either allow_none.
C2_AbsentYieldsDefault ==
    (Called /\ IsNone(ret.arg.raw) /\ TheEntry.default_value.fam \notin {"none", "enum"})
        => (ret.ok /\ ret.out = TheEntry.default_value
                   /\ TheEntry.value = TheEntry.default_value)

\* C2 (amended): the same for every entry that is not of type label and whose
\* default is an instance of the declared class (list for a multi-value
\* entry, else bool, str, int or float as mapped from the type) or whose
\* type is UI-only.
C2_AbsentYieldsMatchingDefault ==
    (/\ Called /\ IsNone(ret.arg.raw)
     /\ TheEntry.default_value.fam \notin {"none", "enum"}
     /\ TheEntry.type # "label"
     /\ (IsInstance(TheEntry.default_value, DeclaredType(TheEntry)) \/ TheEntry.type \in UI_ONLY))
        => (ret.ok /\ ret.out = TheEntry.default_value
                   /\ TheEntry.value = TheEntry.default_value)

C2_Witness ==
    /\ Called /\ IsNone(ret.arg.raw) /\ ~ret.arg.allow_none
    /\ TheEntry.type = "integer" /\ ~TheEntry.multi_value
    /\ TheEntry.default_value = PyInt(3)
    /\ ret.ok /\ ret.out = PyInt(3) /\ TheEntry.value = PyInt(3)

\* C3 (as claimed): a raw value that is no instance of the declared class and
\* that no numeric conversion applies to, on an entry that is not UI-only and
\* has a non-None default of the declared class, is replaced by the default:
\* the call returns the default and stores it.
C3_MismatchFallsBackToDefault ==
    (/\ Called /\ ~IsNone(ret.arg.raw)
     /\ TheEntry.type \notin UI_ONLY
     /\ ~IsInstance(ret.arg.raw, DeclaredType(TheEntry))
     /\ ~CanConvert(ret.arg.raw, DeclaredType(TheEntry))
     /\ ~IsNone(TheEntry.default_value)
     /\ IsInstance(TheEntry.default_value, DeclaredType(TheEntry)))
        => (ret.ok /\ ret.out = TheEntry.default_value
                   /\ TheEntry.value = TheEntry.default_value)

\* C16: on a single-valued entry, parse_value of an int on a float entry
\* returns and stores the float of the same numeric value, and parse_value of
\* a float on an integer entry returns and stores the int nearest to it
\* between it and zero (truncation toward zero); neither call raises,
\* whatever the default, required and allow_none.
C16_WidenAndNarrow ==
    (Called /\ ~TheEntry.multi_value) =>
        /\ (TheEntry.type = "float" /\ ret.arg.raw.fam = "int") =>
                /\ ret.ok /\ ret.out.fam = "float" /\ ret.out.n = 10 * ret.arg.raw.n
                /\ TheEntry.value = ret.out
        /\ (TheEntry.type = "integer" /\ ret.arg.raw.fam = "float") =>
                /\ ret.ok /\ ret.out.fam = "int" /\ TheEntry.value = ret.out
                /\ IF ret.arg.raw.n >= 0
                   THEN 10 * ret.out.n <= ret.arg.raw.n /\ ret.arg.raw.n < 10 * ret.out.n + 10
                   ELSE 10 * ret.out.n - 10 < ret.arg.raw.n /\ ret.arg.raw.n <= 10 * ret.out.n

C16_Witness ==
    /\ Called /\ ~TheEntry.multi_value /\ TheEntry.type = "integer"
    /\ TheEntry.default_value = PyInt(3)
    /\ ret.arg.raw = PyFloat(0 - 25) /\ ret.ok /\ ret.out = PyInt(0 - 2)
    /\ TheEntry.value = PyInt(0 - 2)

\* What Python's int(s) or float(s) gives for the strings of StrValues:
\* None where it raises ValueError.
LiteralOf(type, chars) ==
    CASE type = "integer" /\ chars = <<"7", "5">> -> PyInt(75)
      [] type = "float" /\ chars = <<"7", "5">> -> PyFloat(750)
      [] type = "float" /\ chars = <<"4", "2", ".", "0">> -> PyFloat(420)
      [] OTHER -> None

\* C17: on a single-valued integer (float) entry, parse_value of a string
\* that is an int (float) literal returns and stores the number it denotes;
\* for any other string the call never returns a number, and on an entry
\* without default it raises ValueError (the error of the last step, not
\* an error of the conversion).
C17_StringToNumber ==
    (/\ Called /\ ~TheEntry.multi_value /\ TheEntry.type \in {"integer", "float"}
     /\ ret.arg.raw.fam = "str") =>
        LET lit == LiteralOf(TheEntry.type, ret.arg.raw.s)
        IN /\ ~IsNone(lit) => (ret.ok /\ ret.out = lit /\ TheEntry.value = lit)
           /\ IsNone(lit) => ~(ret.ok /\ IsNumber(ret.out))
           /\ (IsNone(lit) /\ IsNone(TheEntry.default_value)) =>
                (~ret.ok /\ ret.err = "ValueError")

C17_Witness ==
    /\ Called /\ ~TheEntry.multi_value /\ TheEntry.type = "integer"
    /\ IsNone(TheEntry.default_value)
    /\ ret.arg.raw = PyStr(<<"4", "2", ".", "0">>)
    /\ ~ret.ok /\ ret.err = "ValueError"

\* The value parse_value tests on a call with the given raw value: the label
\* for a label entry, else the raw value, or the default for raw None.
TestedValue(e, raw) ==
    IF e.type = "label" THEN PyStr(e.label)
    ELSE IF IsNone(raw) THEN e.default_value ELSE raw

\* The class it tests against: NoneType when raw and default are both None
\* and the entry is not required or None is allowed, else list for a
\* multi-value entry, else str (the class of the four UI-only types).
TestedClass(e, raw, allow_none) ==
    IF IsNone(raw) /\ IsNone(e.default_value) /\ (~e.required \/ allow_none) THEN "none"
    ELSE IF e.multi_value THEN "list" ELSE "str"

\* C18: parse_value on an entry of type label, divider, action or alert
\* never raises, whatever the raw value, default, required, allow_none and
\* multi_value; when the tested value is no instance of the tested class, the
\* call returns and stores the entry's default_value (None when it has none).
C18_UiOnlyNeverFails ==
    (Called /\ TheEntry.type \in {"label", "divider", "action", "alert"}) =>
        /\ ret.ok
        /\ ~IsInstance(TestedValue(TheEntry, ret.arg.raw),
                       TestedClass(TheEntry, ret.arg.raw, ret.arg.allow_none)) =>
                (ret.out = TheEntry.default_value /\ TheEntry.value = TheEntry.default_value)

C18_Witness ==
    /\ Called /\ TheEntry.type = "divider" /\ ~TheEntry.multi_value
    /\ TheEntry.required /\ ~ret.arg.allow_none
    /\ TheEntry.default_value = PyStr(<<"s">>) /\ ret.arg.raw = PyInt(75)
    /\ ret.ok /\ ret.out = PyStr(<<"s">>) /\ TheEntry.value = PyStr(<<"s">>)

-----------------------------------------------------------------------------
\* Claims about the Config aggregate, checked under Spec

Ready == pc = "ready"
JustParsed == Ready /\ ret.op = "parse"
EntryAt(k) == values[IndexOf(values, k)]
IsSecret(e) == e.type = "secure_string" /\ PyTruthy(e.value)

\* C4 (as claimed): the serialized form of a Config that holds a non-empty
\* secure_string value s shows the placeholder as that entry's value and
\* holds s in no field: no entry's value, default_value or label, nor name.
C4_RedactionHidesSecret ==
    (Ready /\ ret.op = "to_dict") =>
        \A i \in 1..Len(values) :
            IsSecret(values[i]) =>
                /\ ret.out.values[values[i].key].value = SECURE_STRING_SUBSTITUTE
                /\ ret.out.name # values[i].value
                /\ \A k \in DOMAIN ret.out.values :
                    /\ ret.out.values[k].value # values[i].value
                    /\ ret.out.values[k].default_value # values[i].value
                    /\ PyStr(ret.out.values[k].label) # values[i].value

\* C5: get_value on a secure_string entry with a non-empty value fails when
\* no decrypt function is installed and otherwise returns decrypt(value) (a
\* str value always gets that far); to_raw fails when it has a secure_string
\* entry to emit and no encrypt function is installed, and otherwise gives
\* encrypt(value) for every secure_string entry it emits; a failed call
\* returns nothing.
C5_SecretsNeverPlain ==
    /\ (Ready /\ ret.op = "get_value" /\ IsSecret(EntryAt(ret.arg))) =>
        /\ DECRYPT_CALLBACK = "None" => ~ret.ok
        /\ ret.ok => ret.out = PyStr(ApplyDecrypt(DECRYPT_CALLBACK, EntryAt(ret.arg).value.s))
        /\ (DECRYPT_CALLBACK # "None" /\ EntryAt(ret.arg).value.fam = "str") => ret.ok
        /\ ~ret.ok => ret.out = None
    /\ (Ready /\ ret.op = "to_raw") =>
        /\ ret.ok => \A i \in 1..Len(values) :
            (values[i].type = "secure_string" /\ values[i].key \in DOMAIN ret.out.values) =>
                /\ ENCRYPT_CALLBACK # "None"
                /\ ret.out.values[values[i].key]
                        = PyStr(ApplyEncrypt(ENCRYPT_CALLBACK, values[i].value.s))
        /\ (ENCRYPT_CALLBACK = "None"
                /\ \E i \in 1..Len(values) :
                    /\ values[i].type = "secure_string"
                    /\ ~PyEq(values[i].value, values[i].default_value)) => ~ret.ok
        /\ ~ret.ok => ret.out.values = <<>>

C5_Witness ==
    /\ Ready /\ ret.op = "get_value" /\ IsSecret(EntryAt(ret.arg))
    /\ DECRYPT_CALLBACK = "unwrap" /\ ret.ok
    /\ EntryAt(ret.arg).value = PyStr(<<"$", "x">>) /\ ret.out = PyStr(<<"x">>)

\* The schema a Config was parsed from, and the raw bag a to_raw result is.
SchemaOf(entries) == [i \in 1..Len(entries) |-> [entries[i] EXCEPT !.value = None]]
AsRaw(r) == [enabled |-> r.enabled, name |-> r.name, values |-> r.values]

\* to_raw(parse(schema, to_raw(c))) succeeds and equals to_raw(c).
RoundTripStable(c, enc) ==
    LET r1 == ToRaw(c, enc)
        c2 == ParseConfig(c.kind, SchemaOf(c.values), AsRaw(r1))
    IN r1.ok /\ c2.ok /\ ToRaw(c2.cfg, enc) = r1

\* C6 (as claimed): for a Config just parsed and any installed encrypt
\* function with which to_raw succeeds, parsing its to_raw and exporting
\* again gives the same bag.
C6_RoundTrip ==
    (JustParsed /\ ret.ok /\ ENCRYPT_CALLBACK # "None" /\ ToRaw(Cfg, ENCRYPT_CALLBACK).ok)
        => RoundTripStable(Cfg, ENCRYPT_CALLBACK)

Idempotent(enc) ==
    \A v \in StrValues :
        ApplyEncrypt(enc, ApplyEncrypt(enc, v.s)) = ApplyEncrypt(enc, v.s)

DefaultFits(e) ==
    IsNone(e.default_value) \/ IsInstance(e.default_value, DeclaredType(e))
        \/ e.type \in {"label", "divider", "action", "alert"}

\* C6 (amended): the round trip is stable when the first to_raw succeeds,
\* the installed encrypt function is idempotent and maps no emitted
\* secure_string value to the entry's default, and every default is None or
\* an instance of the entry's declared class.
C6_RoundTripIdempotentEncrypt ==
    (/\ JustParsed /\ ret.ok /\ ENCRYPT_CALLBACK # "None"
     /\ Idempotent(ENCRYPT_CALLBACK)
     /\ ToRaw(Cfg, ENCRYPT_CALLBACK).ok
     /\ \A i \in 1..Len(values) :
            /\ DefaultFits(values[i])
            /\ (values[i].type = "secure_string" /\ values[i].value.fam = "str") =>
                  PyStr(ApplyEncrypt(ENCRYPT_CALLBACK, values[i].value.s))
                      # values[i].default_value)
        => RoundTripStable(Cfg, ENCRYPT_CALLBACK)

C6_Witness ==
    /\ JustParsed /\ ret.ok /\ ENCRYPT_CALLBACK = "mark"
    /\ \E i \in 1..Len(values) :
        /\ values[i].type = "secure_string" /\ values[i].value = PyStr(<<"x">>)
        /\ IsNone(values[i].default_value)
    /\ RoundTripStable(Cfg, ENCRYPT_CALLBACK)
    /\ DOMAIN ToRaw(Cfg, ENCRYPT_CALLBACK).values # {}

\* Decimal integer strings handed to update.
IntStrings == {PyStr(<<"7", "5">>), PyStr(<<"0">>), PyStr(<<"-", "7">>), PyStr(<<"4", "2">>)}

\* The scenario of C7 with the changed entry addressed by Addr(k): a Config
\* parsed from a one-entry integer schema with default d and no raw value
\* holds d and to_raw omits the key; update({Addr(k): s}) for a decimal
\* string s of n # d then sets the value to n and returns {"values/k"}, and
\* to_raw of the result holds k -> n.
IntegerScenario(Addr(_)) ==
    (/\ JustParsed /\ ret.ok /\ ret.arg = {} /\ Len(values) = 1
     /\ values[1].type = "integer" /\ ~values[1].multi_value
     /\ values[1].default_value.fam = "int") =>
        /\ values[1].value = values[1].default_value
        /\ ToRaw(Cfg, ENCRYPT_CALLBACK).ok
        /\ values[1].key \notin DOMAIN ToRaw(Cfg, ENCRYPT_CALLBACK).values
        /\ \A s \in IntStrings :
            ParseInt(s.s) # values[1].default_value =>
                LET u == UpdateConfig(Cfg, <<[key |-> Addr(values[1].key), val |-> s]>>)
                IN /\ u.ok
                   /\ u.cfg.values[1].value = ParseInt(s.s)
                   /\ u.changed = {"values/" \o values[1].key}
                   /\ ToRaw(u.cfg, ENCRYPT_CALLBACK).ok
                   /\ values[1].key \in DOMAIN ToRaw(u.cfg, ENCRYPT_CALLBACK).values
                   /\ ToRaw(u.cfg, ENCRYPT_CALLBACK).values[values[1].key] = ParseInt(s.s)

BareKey(k) == k
PrefixedKey(k) == "values/" \o k

\* C7 (as claimed): the scenario with the change addressed as "values/k".
C7_UpdateAddressedByValuesPath == IntegerScenario(PrefixedKey)

\* C7 (amended): the scenario with the change addressed by the entry key k.
C7_UpdateAddressedByKey == IntegerScenario(BareKey)

C7_Witness ==
    /\ Ready /\ ret.op = "update" /\ ret.ok /\ ret.out = {"values/k1"}
    /\ values[1].type = "integer" /\ values[1].default_value = PyInt(3)
    /\ values[1].value = PyInt(75)
    /\ ToRaw(Cfg, ENCRYPT_CALLBACK).values["k1"] = PyInt(75)

\* The scenario of C8 with the changed entry addressed by Addr(k): on a
\* Config parsed with a required, single-valued string entry without default
\* and without raw value, validate fails; after update({Addr(k): s}) with a
\* non-empty string s, validate succeeds.
RequiredStringScenario(Addr(_)) ==
    \A i \in 1..Len(values) :
        (/\ JustParsed /\ ret.ok /\ values[i].key \notin ret.arg
         /\ values[i].type = "string" /\ values[i].required /\ ~values[i].multi_value
         /\ IsNone(values[i].default_value)
         /\ \A j \in 1..Len(values) : j # i => ValidateConfig([Cfg EXCEPT !.values = <<values[j]>>]).ok) =>
            /\ ~ValidateConfig(Cfg).ok
            /\ \A s \in {v \in StrValues : v.s # <<>>} :
                LET u == UpdateConfig(ValidateConfig(Cfg).cfg,
                                      <<[key |-> Addr(values[i].key), val |-> s]>>)
                IN u.ok /\ ValidateConfig(u.cfg).ok

\* C8 (as claimed): the scenario with the change addressed as "values/k".
C8_ValidateAfterValuesPathUpdate == RequiredStringScenario(PrefixedKey)

\* C8 (amended): the scenario with the change addressed by the entry key k.
C8_ValidateAfterKeyUpdate == RequiredStringScenario(BareKey)

C8_Witness ==
    /\ Ready /\ ret.op = "validate" /\ ret.ok
    /\ \E i \in 1..Len(values) :
        /\ values[i].type = "string" /\ values[i].required /\ ~values[i].multi_value
        /\ IsNone(values[i].default_value) /\ values[i].value = PyStr(<<"x">>)

\* The values update is handed for a root field.
RootInputs(field) ==
    IF field = "enabled" THEN {PyBool(TRUE), PyBool(FALSE)} ELSE {None, PyStr(<<"n">>)}

\* C9 (as claimed): on a Config of any kind, update({field: v}) for a root
\* field succeeds; when v differs from the current value it sets the field
\* and returns {field}, else it returns the empty set and changes nothing;
\* the same update once more returns the empty set and changes nothing.
C9_RootFieldUpdate ==
    Ready =>
        \A field \in {"enabled", "name"} : \A v \in RootInputs(field) :
            LET u == UpdateConfig(Cfg, <<[key |-> field, val |-> v]>>)
                again == UpdateConfig(u.cfg, <<[key |-> field, val |-> v]>>)
            IN /\ u.ok
               /\ u.cfg[field] = v
               /\ u.changed = IF Cfg[field] # v THEN {field} ELSE {}
               /\ u.cfg = [Cfg EXCEPT ![field] = v]
               /\ again.ok /\ again.changed = {} /\ again.cfg = u.cfg

\* C10: the values bag of a successful to_raw holds key k exactly when entry
\* k's value differs (Python !=) from its default_value and its type is none
\* of label, divider, action, alert; what it holds for k is the value, and
\* encrypt(value) for a secure_string entry.
C10_ToRawMinimal ==
    (Ready /\ ret.op = "to_raw" /\ ret.ok) =>
        /\ DOMAIN ret.out.values \subseteq KeysOf(values)
        /\ \A i \in 1..Len(values) :
            /\ values[i].key \in DOMAIN ret.out.values
                <=> (/\ ~PyEq(values[i].value, values[i].default_value)
                     /\ values[i].type \notin {"label", "divider", "action", "alert"})
            /\ values[i].key \in DOMAIN ret.out.values =>
                ret.out.values[values[i].key] =
                    IF values[i].type = "secure_string"
                    THEN PyStr(ApplyEncrypt(ENCRYPT_CALLBACK, values[i].value.s))
                    ELSE values[i].value

C10_Witness ==
    /\ Ready /\ ret.op = "to_raw" /\ ret.ok
    /\ \E i \in 1..Len(values) :
        /\ values[i].type = "secure_string" /\ values[i].value = PyStr(<<"x">>)
        /\ values[i].key \in DOMAIN ret.out.values
        /\ ret.out.values[values[i].key] = PyStr(<<"$", "x">>)

-----------------------------------------------------------------------------
\* Claims about one call of update, stated on the step from the state before
\* the call to the state after it

UpdateStep == pc = "ready" /\ ret'.op = "update"

\* The identifiers of what differs (Python !=) between the state before and
\* the state after a step.
ChangedIds ==
    {f \in {"enabled"} : ~PyEq(enabled', enabled)}
    \cup {f \in {"name"} : ~PyEq(name', name)}
    \cup {ValuesId(values[i].key) : i \in {j \in 1..Len(values) :
                                        ~PyEq(values'[j].value, values[j].value)}}

\* C11: the set a successful update returns is exactly the set of root field
\* names whose value differs after the call from before it, and of
\* "values/" + k for the entries k whose stored value differs after the call
\* from before it.
C11_ChangedSetExact ==
    [][(UpdateStep /\ ret'.ok) => ret'.out = ChangedIds]_vars

C11_Witness ==
    /\ Ready /\ ret.op = "update" /\ ret.ok /\ ret.out = {"enabled", "values/k1"}
    /\ enabled = PyBool(FALSE) /\ values[1].value = PyInt(75)

-----------------------------------------------------------------------------
\* Claims about update as a function of the Config and the bag

\* A key of an update bag that is neither a root field nor the key of an
\* entry of the Config.
IsUnknownKey(k) == k \notin {"enabled", "name"} \cup KeysOf(values)

HasUnknownKey(bag) == \E i \in 1..Len(bag) : IsUnknownKey(bag[i].key)

KnownItem(it) == ~IsUnknownKey(it.key)

\* The bag without its unknown keys.
WithoutUnknown(bag) == SelectSeq(bag, KnownItem)

\* C12: on any Config, update with a bag that holds keys that are neither
\* root fields nor entry keys does exactly what update with the bag without
\* those keys does (same success or failure, same root fields and entries,
\* same returned set); it adds no entry and the returned set holds no
\* "values/" + k for such a key k; a bag of such keys only succeeds, changes
\* nothing and returns the empty set.
C12_UnknownKeyIgnored ==
    Ready =>
        \A bag \in UpdateBags(values) :
            HasUnknownKey(bag) =>
                LET u == UpdateConfig(Cfg, bag)
                    w == UpdateConfig(Cfg, WithoutUnknown(bag))
                IN /\ u = w
                   /\ KeysOf(u.cfg.values) = KeysOf(values)
                   /\ \A i \in 1..Len(bag) :
                        IsUnknownKey(bag[i].key) => ValuesId(bag[i].key) \notin u.changed
                   /\ WithoutUnknown(bag) = <<>> =>
                        (u.ok /\ u.cfg = Cfg /\ u.changed = {})

C12_Witness ==
    /\ Ready /\ Len(values) = 1 /\ values[1].type = "integer"
    /\ values[1].value = PyInt(3)
    /\ LET bag == <<[key |-> StrayKey, val |-> PyStr(<<"x">>)],
                    [key |-> "k1", val |-> PyInt(75)]>>
           u == UpdateConfig(Cfg, bag)
       IN /\ bag \in UpdateBags(values)
          /\ u.ok /\ u.changed = {"values/k1"}
          /\ u.cfg.values[1].value = PyInt(75)
          /\ KeysOf(u.cfg.values) = {"k1"}

-----------------------------------------------------------------------------
\* Enum catalogs: a member is identified with its wire value

MediaType ==
    {"artist", "album", "track", "playlist", "radio", "audiobook", "podcast",
     "podcast_episode", "folder", "announcement", "flow_stream", "plugin_source",
     "unknown"}

ExternalID ==
    {"musicbrainz_artistid", "musicbrainz_albumid", "musicbrainz_releasegroupid",
     "musicbrainz_trackid", "musicbrainz_recordingid", "isrc", "barcode", "acoustid",
     "asin", "discogs", "tadb", "unknown"}

LinkType ==
    {"website", "facebook", "twitter", "lastfm", "youtube", "instagram", "snapchat",
     "tiktok", "discogs", "wikipedia", "allmusic", "unknown"}

ImageType ==
    {"thumb", "landscape", "fanart", "logo", "clearart", "banner", "cutout", "back",
     "discart", "other"}

AlbumType ==
    {"album", "single", "compilation", "ep", "unknown"}

ContentType ==
    {"ogg", "wav", "aiff", "mpeg", "m4a", "mp4", "m4b", "dsf", "flac", "mp3", "wma",
     "wmav2", "wmapro", "wavpack", "tak", "ape", "mpc", "aac", "alac", "opus", "vorbis",
     "ac3", "eac3", "dts", "truehd", "dtshd", "dtsx", "cook", "ralf", "mp2", "mp1",
     "dra", "atrac3", "s16le", "s24le", "s32le", "f32le", "f64le", "s16be", "s24be",
     "s32be", "pcm_bluray", "pcm_dvd", "adpcm_ima_qt", "adpcm_ms", "adpcm_swf",
     "dsd_lsbf", "dsd_msbf", "dsd_lsbf_planar", "dsd_msbf_planar", "amr_nb", "amr_wb",
     "speex", "alaw", "mulaw", "g722", "g726", "pcm", "?"}

PlayerType ==
    {"player", "stereo_pair", "group", "unknown"}

PlayerFeature ==
    {"power", "volume_set", "volume_mute", "pause", "set_members", "multi_device_dsp",
     "seek", "next_previous", "play_announcement", "enqueue", "select_source",
     "unknown"}

EventType ==
    {"player_added", "player_updated", "player_removed", "player_settings_updated",
     "queue_added", "queue_updated", "queue_items_updated", "queue_time_updated",
     "media_item_played", "application_shutdown", "media_item_added",
     "media_item_updated", "media_item_deleted", "providers_updated",
     "player_config_updated", "sync_tasks_updated", "auth_session", "unknown"}

ProviderFeature ==
    {"browse", "search", "recommendations", "library_artists", "library_albums",
     "library_tracks", "library_playlists", "library_radios", "library_audiobooks",
     "library_podcasts", "artist_albums", "artist_toptracks", "library_artists_edit",
     "library_albums_edit", "library_tracks_edit", "library_playlists_edit",
     "library_radios_edit", "library_audiobooks_edit", "library_podcasts_edit",
     "similar_tracks", "playlist_tracks_edit", "playlist_create", "sync_players",
     "remove_player", "artist_metadata", "album_metadata", "track_metadata",
     "audio_source", "unknown"}

ParametricEQBandType ==
    {"peak", "high_shelf", "low_shelf", "high_pass", "low_pass", "notch", "unknown"}

\* The catalogs that define an Unknown (ImageType: Other) member.
EnumCatalogs ==
    {"MediaType", "ExternalID", "LinkType", "ImageType", "AlbumType", "ContentType",
     "PlayerType", "PlayerFeature", "EventType", "ProviderFeature", "ConfigEntryType",
     "ParametricEQBandType"}

EnumMembers(cls) ==
    CASE cls = "MediaType" -> MediaType
      [] cls = "ExternalID" -> ExternalID
      [] cls = "LinkType" -> LinkType
      [] cls = "ImageType" -> ImageType
      [] cls = "AlbumType" -> AlbumType
      [] cls = "ContentType" -> ContentType
      [] cls = "PlayerType" -> PlayerType
      [] cls = "PlayerFeature" -> PlayerFeature
      [] cls = "EventType" -> EventType
      [] cls = "ProviderFeature" -> ProviderFeature
      [] cls = "ConfigEntryType" -> ConfigEntryType
      [] cls = "ParametricEQBandType" -> ParametricEQBandType

\* What _missing_ returns when it returns no member (Enum's own _missing_).
NoMember == "<None>"

\* cls._missing_(value)
Missing(cls, value) ==
    CASE cls = "AlbumType" -> NoMember
      [] cls = "ImageType" -> "other"
      [] cls = "ContentType" -> "?"
      [] cls = "PlayerFeature" -> IF value = "sync" THEN "set_members" ELSE "unknown"
      [] OTHER -> "unknown"

\* cls(value): the member with that value, else what _missing_ returns, and
\* ValueError when that is no member.
Construct(cls, value) ==
    IF value \in EnumMembers(cls) THEN [ok |-> TRUE, err |-> "", out |-> value]
    ELSE IF Missing(cls, value) \in EnumMembers(cls)
         THEN [ok |-> TRUE, err |-> "", out |-> Missing(cls, value)]
         ELSE [ok |-> FALSE, err |-> "ValueError", out |-> NoMember]

\* Wire values handed to the catalogs: members of some and of none.
WireValues ==
    {"album", "track", "unknown", "other", "?", "sync", "peak", "boolean", "thumb",
     "live", "karaoke", ""}

-----------------------------------------------------------------------------
\* SpecEnum: a member constructed from a wire value

InitEnum ==
    /\ pc = "enum"
    /\ cfgKind = "none"
    /\ enabled = None
    /\ name = None
    /\ values = <<>>
    /\ ENCRYPT_CALLBACK = "None"
    /\ DECRYPT_CALLBACK = "None"
    /\ ret = NoRet

CallEnum ==
    /\ pc = "enum"
    /\ \E cls \in EnumCatalogs, value \in WireValues :
        \E r \in {Construct(cls, value)} :
           ret' = [op |-> "enum", ok |-> r.ok, err |-> r.err,
                   arg |-> [cls |-> cls, value |-> value], out |-> r.out]
    /\ UNCHANGED <<pc, cfgKind, enabled, name, values, ENCRYPT_CALLBACK, DECRYPT_CALLBACK>>

NextEnum == CallEnum

SpecEnum == InitEnum /\ [][NextEnum]_vars

\* C13 (as claimed): constructing a member of any of the catalogs from a
\* wire value that is not in the catalog succeeds and yields a member of the
\* catalog: its Unknown member, or the member _missing_ maps the value to.
C13_UnknownWireValueNeverFails ==
    (ret.op = "enum" /\ ret.arg.value \notin EnumMembers(ret.arg.cls))
        => (ret.ok /\ ret.out = Missing(ret.arg.cls, ret.arg.value)
                   /\ ret.out \in EnumMembers(ret.arg.cls))

-----------------------------------------------------------------------------
\* Claims about the values a Config holds, checked under Spec

\* The value is None or an instance (Python isinstance, so a bool is an int)
\* of the class the entry declares.
InFamily(e) == IsNone(e.value) \/ IsInstance(e.value, DeclaredType(e))

\* C14 (as claimed): in every state after a successful parse and any updates
\* and validations, every entry's value is None or an instance of the class
\* the entry declares (list when multi_value, else the class mapped from the
\* type), whatever the default_value of the schema.
C14_ValueInFamily ==
    Ready => \A i \in 1..Len(values) : InFamily(values[i])

\* C14 (amended): the same for every entry whose type is none of label,
\* divider, action, alert; an entry of those types holds None, an instance
\* of the declared class, or its default_value.
C14_ValueInFamilyOrUiDefault ==
    Ready => \A i \in 1..Len(values) :
        \/ InFamily(values[i])
        \/ values[i].type \in {"label", "divider", "action", "alert"}
            /\ values[i].value = values[i].default_value

C14_Witness ==
    /\ Ready /\ ret.op = "update" /\ ret.ok /\ ret.out = {"values/k1"}
    /\ values[1].type = "float" /\ values[1].default_value = PyInt(3)
    /\ values[1].value = PyFloat(750)

\* C15: the keys of the entries of a Config that Config.parse returns are the
\* keys of the schema it was given (a raw key that no schema entry has adds
\* none), and no call of update, validate, to_raw, to_dict or get_value,
\* succeeding or failing, changes the key set.
C15_KeySetFixed ==
    /\ [](pc = "new" =>
            \A kind \in ConfigKinds, schema \in Schemas :
                \A raw \in RawBags(schema) :
                    ParseConfig(kind, schema, raw).ok =>
                        KeysOf(ParseConfig(kind, schema, raw).cfg.values) = KeysOf(schema))
    /\ [][pc = "ready" => KeysOf(values') = KeysOf(values)]_vars

C15_Witness ==
    /\ Ready /\ ret.op = "update" /\ ~ret.ok /\ ret.err = "ValueError"
    /\ KeysOf(values) = {"k1"}

\* An entry that is required and holds no value and has no default.
RequiredEmpty(e) == e.required /\ IsNone(e.value) /\ IsNone(e.default_value)

\* C19 (as claimed): on every Config reached by parse and update, validate
\* raises exactly when some entry whose type is none of label, divider,
\* action, alert is required, holds None and has no default, whatever the
\* type of that entry, unknown included.
C19_ValidateIffRequiredEmpty ==
    Ready =>
        (~ValidateConfig(Cfg).ok <=>
            \E i \in 1..Len(values) :
                values[i].type \notin {"label", "divider", "action", "alert"}
                    /\ RequiredEmpty(values[i]))

\* C19 (amended): the same with the single-valued entries of type unknown
\* left out as well: they hold only None, and validate accepts them.
C19_ValidateIffRequiredEmptyKnown ==
    Ready =>
        (~ValidateConfig(Cfg).ok <=>
            \E i \in 1..Len(values) :
                /\ values[i].type \notin {"label", "divider", "action", "alert"}
                /\ ~(values[i].type = "unknown" /\ ~values[i].multi_value)
                /\ RequiredEmpty(values[i]))

C19_Witness ==
    /\ Ready /\ ret.op = "validate" /\ ~ret.ok /\ ret.err = "ValueError"
    /\ \E i \in 1..Len(values) :
        values[i].type = "string" /\ ~values[i].multi_value /\ RequiredEmpty(values[i])

\* C20 (as claimed): a call of update that raises ValueError (a value of an
\* unexpected type for one of its keys) leaves every root field and every
\* entry as it was before the call.
C20_UpdateAllOrNothing ==
    [][(UpdateStep /\ ~ret'.ok /\ ret'.err = "ValueError")
        => (enabled' = enabled /\ name' = name /\ values' = values)]_vars

-----------------------------------------------------------------------------
\* Claims about one call of validate, and about reloading an exported Config

ValidateStep == pc = "ready" /\ ret'.op = "validate"

\* The Config after a step.
CfgAfter == [kind |-> cfgKind', enabled |-> enabled', name |-> name', values |-> values']

\* C21 (as claimed): a call of validate, succeeding or raising, leaves every
\* root field and every entry's value as it was, so that to_raw and
\* get_value of every key give after the call what they gave before it.
C21_ValidateIsPure ==
    [][ValidateStep =>
        /\ enabled' = enabled /\ name' = name
        /\ \A i \in 1..Len(values) : values'[i].value = values[i].value
        /\ ToRaw(CfgAfter, ENCRYPT_CALLBACK) = ToRaw(Cfg, ENCRYPT_CALLBACK)
        /\ \A k \in KeysOf(values) :
            GetValue(CfgAfter, k, DECRYPT_CALLBACK) = GetValue(Cfg, k, DECRYPT_CALLBACK)]_vars

\* decrypt(encrypt(x)) = x for the strings of the model.
DecryptInvertsEncrypt(enc, dec) ==
    \A v \in StrValues : ApplyDecrypt(dec, ApplyEncrypt(enc, v.s)) = v.s

\* The Config that Config.parse builds from to_raw of c and c's schema.
Reloaded(c, enc) == ParseConfig(c.kind, SchemaOf(c.values), AsRaw(ToRaw(c, enc)))

\* C22 (as claimed): with installed functions such that decrypt(encrypt(x))
\* = x, for every Config and every secure_string entry k that holds a
\* non-empty string other than its default, to_raw and the parse of its
\* result succeed and get_value(k) on the reloaded Config returns what
\* get_value(k) returns on the Config.
C22_ReloadPreservesSecretReads ==
    (/\ Ready /\ ENCRYPT_CALLBACK # "None"
     /\ DecryptInvertsEncrypt(ENCRYPT_CALLBACK, DECRYPT_CALLBACK)) =>
        \A i \in 1..Len(values) :
            (/\ values[i].type = "secure_string"
             /\ values[i].value.fam = "str" /\ values[i].value.s # <<>>
             /\ ~PyEq(values[i].value, values[i].default_value)) =>
                /\ ToRaw(Cfg, ENCRYPT_CALLBACK).ok
                /\ Reloaded(Cfg, ENCRYPT_CALLBACK).ok
                /\ GetValue(Reloaded(Cfg, ENCRYPT_CALLBACK).cfg, values[i].key, DECRYPT_CALLBACK)
                    = GetValue(Cfg, values[i].key, DECRYPT_CALLBACK)

====
